---- MODULE Spec2Model ----
(***************************************************************************)
(* Reviewer-FAST: a model of the review / feedback / statistics pipeline   *)
(* over the ChromaDB "suggestions" collection.                             *)
(*                                                                         *)
(* The backend runs on one asyncio event loop.  A coroutine gives up the   *)
(* loop only where it awaits a future that is really pending: the executor *)
(* calls of GitHubService.fetch_pr_diff_by_repo and ReviewService._call_llm.*)
(* Every other await (the VectorStore coroutines) runs to completion       *)
(* without suspending, so the steps of the model are the code between two  *)
(* executor calls.  One review request is in flight at a time; feedback,   *)
(* statistics and similarity calls interleave with it at its suspension    *)
(* points.                                                                 *)
(*                                                                         *)
(* The ChromaDB collection is a collaborator: add / get / update / query   *)
(* behave as section 4.2 of the specification describes them.  uuid4 ids   *)
(* are fresh values: review ids are numbered in the order they are drawn,  *)
(* a suggestion id is the triple <<review, file index, element index>> of  *)
(* the place that drew it.  datetime.utcnow().isoformat() is the reading   *)
(* of a clock that never runs backwards (ISO strings order as times do).   *)
(* Python's None is the string NoneVal.  Suggestion.end_line_number and    *)
(* code_snippet are never persisted nor read back and are left out.        *)
(***************************************************************************)
EXTENDS Integers, Sequences, FiniteSets, TLC

VARIABLES
    store,            \* suggestions_collection: sequence of documents, in insertion order
    clock,            \* the reading of datetime.utcnow()
    nextReview,       \* how many review ids uuid4 has handed out
    pc,               \* position of the create_review coroutine
    review_id,        \* create_review: review_id
    parsed_files,     \* create_review: parsed_diff.files (the FileChange paths, in order)
    llm_responses,    \* generate_review: the engine's answer for each file reviewed so far
    file_suggestions, \* generate_review: _review_file's result for each file reviewed so far
    all_suggestions,  \* generate_review: all_suggestions
    fetch_request,    \* create_review: request, while its diff is fetched from GitHub
    outbound,         \* per concurrent request: where its outbound call stands
    suggestions,      \* create_review: the list generate_review returned
    response,         \* the HTTP response of the last create_review
    nFeedback,        \* number of POST /api/feedback requests served
    ret               \* the last call of an operation that runs without suspending

vars == <<store, clock, nextReview, pc, review_id, parsed_files, llm_responses,
          file_suggestions, all_suggestions, fetch_request, outbound, suggestions, response,
          nFeedback, ret>>

reviewVars == <<pc, review_id, parsed_files, llm_responses, file_suggestions,
                all_suggestions, fetch_request, suggestions, response, nextReview>>

(***************************************************************************)
(* Bounds of the exploration.                                              *)
(***************************************************************************)
MaxReviews == 2
MaxRecords == 3
MaxItems == 2
MaxFeedback == 2
MaxClock == 2
MaxLimit == 2
MaxRequests == 6
CpuCount == 2

(***************************************************************************)
(* Program constants.                                                      *)
(***************************************************************************)
MinConfidence == 30
DefaultConfidence == 50
OverFetch == 3
QueryCap == 20
RecentLimit == 10
BucketWidth == 20
FetchWorkers == 5

NoneVal == "<None>"
JsonNull == "<null>"
Paths == {"a.py", "b.py"}
TerminalActions == {"accept", "reject", "edit"}

(***************************************************************************)
(* Python helpers.                                                         *)
(***************************************************************************)
\* dict.get(k, default)
Get(d, k, default) == IF k \in DOMAIN d THEN d[k] ELSE default

\* truthiness of an Optional[str]
Truthy(s) == s # NoneVal /\ s # ""

Min(a, b) == IF a <= b THEN a ELSE b

RECURSIVE SeqsUpTo(_, _)
SeqsUpTo(S, n) ==
    IF n = 0 THEN {<<>>}
    ELSE LET shorter == SeqsUpTo(S, n - 1)
         IN  shorter \cup {Append(q, x) : q \in {r \in shorter : Len(r) = n - 1}, x \in S}

Range(s) == {s[i] : i \in DOMAIN s}

(***************************************************************************)
(* Inputs: diffs and the generation engine's answers.                      *)
(***************************************************************************)
\* A patched file of a unified diff, as unidiff.PatchSet yields it.
PatchedFiles == [path : Paths, is_removed_file : BOOLEAN]

MaxFiles == 2

\* Raw diff text: either not a unified diff, or a list of patched files.
RawDiffs ==
    {[wellformed |-> FALSE, files |-> <<>>]}
        \cup {[wellformed |-> TRUE, files |-> fs] : fs \in SeqsUpTo(PatchedFiles, MaxFiles)}

\* One element of the JSON array the engine is asked for: a dict with any of
\* the keys missing.  The last one cannot be made a Suggestion (pydantic
\* rejects null for a str field).
LlmItems ==
    { [line_number |-> 10, category |-> "style", suggestion |-> "use f-string", confidence |-> 80],
      [category |-> "bug", suggestion |-> "rename", confidence |-> 29],
      [confidence |-> 30],
      [suggestion |-> JsonNull] }

\* The engine's answer to one prompt: the call raises, or returns text that
\* is or is not JSON (the text is taken with its code fence already removed).
ResponsesUpTo(n) ==
    {[kind |-> "raise", json |-> FALSE, items |-> <<>>],
     [kind |-> "text", json |-> FALSE, items |-> <<>>]}
        \cup {[kind |-> "text", json |-> TRUE, items |-> its] : its \in SeqsUpTo(LlmItems, n)}

LlmResponses == ResponsesUpTo(MaxItems)

(***************************************************************************)
(* DiffParser                                                              *)
(***************************************************************************)
\* DiffParser.parse: the FileChange list, deleted files skipped.
ParseFiles(raw) ==
    LET kept == SelectSeq(raw.files, LAMBDA f : ~f.is_removed_file)
    IN  [i \in 1..Len(kept) |-> kept[i].path]

\* The lines of one hunk as DiffParser.parse copies them from unidiff: a
\* removed line has no target line number (None: the field is left out), the
\* others are numbered from the hunk's target start on.
HunkLines(target_start, kinds, tag) ==
    [i \in DOMAIN kinds |->
        LET earlier == Len(SelectSeq(SubSeq(kinds, 1, i - 1), LAMBDA k : k # "-"))
            common == [line_type |-> kinds[i], value |-> tag \o ToString(i)]
        IN  IF kinds[i] = "-" THEN common
            ELSE ("target_line_no" :> (target_start + earlier)) @@ common]

Abs(x) == IF x < 0 THEN -x ELSE x

\* Variant: only the lines strictly inside the window.
InWindowStrict(line, line_number, context_lines) ==
    /\ "target_line_no" \in DOMAIN line
    /\ line.target_line_no # 0
    /\ Abs(line.target_line_no - line_number) < context_lines

\* line["target_line_no"] and abs(line["target_line_no"] - line_number) <= context_lines
InWindow(line, line_number, context_lines) ==
    /\ "target_line_no" \in DOMAIN line
    /\ line.target_line_no # 0
    /\ Abs(line.target_line_no - line_number) <= context_lines

\* f"{line['target_line_no']}: {line['value']}"
FormatLine(line) == ToString(line.target_line_no) \o ": " \o line.value

\* "\n".join(context)
RECURSIVE Join(_)
Join(context) ==
    IF context = <<>> THEN ""
    ELSE IF Len(context) = 1 THEN context[1]
    ELSE context[1] \o "\n" \o Join(Tail(context))

\* The lines of a file's hunks, hunk after hunk.
RECURSIVE HunkLinesOf(_)
HunkLinesOf(hunks) ==
    IF hunks = <<>> THEN <<>> ELSE Head(hunks).lines \o HunkLinesOf(Tail(hunks))

\* DiffParser.get_file_context: the first file of that path decides.  Result:
\* the local context (when a file matched) and the string returned.
RECURSIVE GetFileContext(_, _, _, _)
GetFileContext(files, file_path, line_number, context_lines) ==
    IF files = <<>> THEN [found |-> FALSE, context |-> <<>>, result |-> ""]
    ELSE IF Head(files).path = file_path
    THEN LET kept == SelectSeq(HunkLinesOf(Head(files).hunks),
                               LAMBDA line : InWindow(line, line_number, context_lines))
             context == [i \in DOMAIN kept |-> FormatLine(kept[i])]
         IN  [found |-> TRUE, context |-> context, result |-> Join(context)]
    ELSE GetFileContext(Tail(files), file_path, line_number, context_lines)

\* ReviewService._build_code_context: the changed lines of one file.
BuildCodeContext(path) == "changes of " \o path

(***************************************************************************)
(* VectorStore (services/vector_store.py)                                  *)
(***************************************************************************)
\* Variant: a key without the suggestion's id.
DocIdPerFile(rid, path, sid) == <<rid, path>>

\* doc_id = f"{review_id}_{file_path}_{suggestion.id}"; both uuids have a
\* fixed width, so the joined string determines and is determined by the triple.
DocId(rid, path, sid) == <<rid, path, sid>>

Ids(st) == {st[i].id : i \in DOMAIN st}

\* collection.get(where=...): the indices of the documents whose metadata
\* matches every key of the filter, in insertion order.
GetWhere(st, where) ==
    LET hit(i) == \A k \in DOMAIN where :
                      k \in DOMAIN st[i].metadata /\ st[i].metadata[k] = where[k]
        RECURSIVE scan(_)
        scan(i) == IF i > Len(st) THEN <<>>
                   ELSE (IF hit(i) THEN <<i>> ELSE <<>>) \o scan(i + 1)
    IN  scan(1)

\* The metadata store_review_context writes for one suggestion.
PendingMetadata(rid, path, sug, now) ==
    [review_id |-> rid, file_path |-> path, suggestion_id |-> sug.id,
     suggestion |-> sug.suggestion, category |-> sug.category,
     confidence |-> sug.confidence, line_number |-> sug.line_number,
     action |-> "pending", timestamp |-> now]

\* collection.add of one document.  An id already present: the backend
\* raises ("raise"), keeps the old document ("ignore") or replaces it ("upsert").
\* Result: the collection and whether the call raised.
CollectionAdd(st, doc, policy) ==
    IF doc.id \notin Ids(st) THEN [st |-> Append(st, doc), raised |-> FALSE]
    ELSE IF policy = "raise" THEN [st |-> st, raised |-> TRUE]
    ELSE IF policy = "ignore" THEN [st |-> st, raised |-> FALSE]
    ELSE [st |-> [i \in DOMAIN st |-> IF st[i].id = doc.id THEN doc ELSE st[i]],
          raised |-> FALSE]

\* VectorStore.store_review_context: one add per suggestion; an exception
\* ends the loop and is swallowed.
RECURSIVE StoreReviewContext(_, _, _, _, _, _, _)
StoreReviewContext(st, rid, path, code_context, sugs, now, policy) ==
    IF sugs = <<>> THEN st
    ELSE LET sug == Head(sugs)
             doc == [id |-> DocId(rid, path, sug.id), document |-> code_context,
                     metadata |-> PendingMetadata(rid, path, sug, now)]
             added == CollectionAdd(st, doc, policy)
         IN  IF added.raised THEN st
             ELSE StoreReviewContext(added.st, rid, path, code_context, Tail(sugs), now, policy)

\* VectorStore.store_feedback.  Result: the collection, and the locals
\* found (results["ids"] not empty) and metadata (the metadata read).
\* Variant: the reason of an earlier call survives a later call.
UpdatedMetadataKeepsReason(metadata, action, reason, edited, now) ==
    LET kept == IF Truthy(Get(metadata, "reason", "")) THEN metadata.reason
                ELSE IF Truthy(reason) THEN reason ELSE ""
    IN  ("action" :> action) @@ ("reason" :> kept) @@ ("feedback_timestamp" :> now)
            @@ metadata

UpdatedMetadata(metadata, action, reason, edited, now) ==
    LET base == ("action" :> action)
                    @@ ("reason" :> (IF Truthy(reason) THEN reason ELSE ""))
                    @@ ("feedback_timestamp" :> now)
                    @@ metadata
    IN  IF Truthy(edited)
        THEN ("edited_suggestion" :> edited) @@ ("suggestion" :> edited) @@ base
        ELSE base

\* Variant: the record is looked up by its review id alone.
StoreFeedbackByReviewOnly(st, rid, sid, action, reason, edited, now) ==
    LET results == SelectSeq([i \in DOMAIN st |-> i],
                             LAMBDA i : st[i].metadata.review_id = rid)
    IN  IF results # <<>>
        THEN LET i == results[1]
                 metadata == st[i].metadata
             IN  [st |-> [st EXCEPT ![i].metadata =
                                        UpdatedMetadata(metadata, action, reason, edited, now)],
                  found |-> TRUE, metadata |-> metadata]
        ELSE [st |-> st, found |-> FALSE, metadata |-> <<>>]

\* Variant: a record that already has feedback keeps it.
StoreFeedbackWriteOnce(st, rid, sid, action, reason, edited, now) ==
    LET results == GetWhere(st, [review_id |-> rid, suggestion_id |-> sid])
    IN  IF results # <<>>
        THEN LET i == results[1]
                 metadata == st[i].metadata
             IN  [st |-> IF metadata.action \in TerminalActions THEN st
                         ELSE [st EXCEPT ![i].metadata =
                                   UpdatedMetadata(metadata, action, reason, edited, now)],
                  found |-> TRUE, metadata |-> metadata]
        ELSE [st |-> st, found |-> FALSE, metadata |-> <<>>]

StoreFeedback(st, rid, sid, action, reason, edited, now) ==
    LET results == GetWhere(st, [review_id |-> rid, suggestion_id |-> sid])
    IN  IF results # <<>>
        THEN LET i == results[1]
                 metadata == st[i].metadata
             IN  [st |-> [st EXCEPT ![i].metadata =
                                        UpdatedMetadata(metadata, action, reason, edited, now)],
                  found |-> TRUE, metadata |-> metadata]
        ELSE [st |-> st, found |-> FALSE, metadata |-> <<>>]

\* collection.query(query_texts, n_results): the documents ranked by
\* similarity, as indices into the collection.  The ranking is the embedding's
\* business: any order of any min(n_results, count) documents.
Rankings(st, n_results) ==
    LET k == Min(n_results, Len(st))
    IN  {r \in [1..k -> DOMAIN st] : \A i, j \in 1..k : i # j => r[i] # r[j]}

\* The entry find_similar_code builds from one document.
SimilarEntry(doc) ==
    [code_context |-> doc.document,
     suggestion |-> Get(doc.metadata, "suggestion", ""),
     action |-> Get(doc.metadata, "action", "pending"),
     reason |-> Get(doc.metadata, "reason", ""),
     category |-> Get(doc.metadata, "category", ""),
     confidence |-> Get(doc.metadata, "confidence", 0)]

\* n_results=min(limit * 3, 20)
NResults(limit) == Min(limit * OverFetch, QueryCap)

\* The loop of find_similar_code over the query's documents: keep the ones
\* with feedback, stop once `limit` are kept.
RECURSIVE CollectSimilar(_, _, _, _)
CollectSimilar(docs, i, similar_reviews, limit) ==
    IF i > Len(docs) THEN similar_reviews
    ELSE LET action == Get(docs[i].metadata, "action", "pending")
             kept == IF action \in TerminalActions
                     THEN Append(similar_reviews, SimilarEntry(docs[i]))
                     ELSE similar_reviews
         IN  IF Len(kept) >= limit THEN kept
             ELSE CollectSimilar(docs, i + 1, kept, limit)

\* Variant: the first `limit` documents of the query, whatever their action.
FindSimilarUnfiltered(st, ranking, limit) ==
    IF NResults(limit) < 1 THEN <<>>
    ELSE [i \in 1..Min(limit, Len(ranking)) |-> SimilarEntry(st[ranking[i]])]

\* VectorStore.find_similar_code, given the ranking the query answers with.
\* The query raises for n_results < 1 (and the method returns []).
FindSimilar(st, ranking, limit) ==
    IF NResults(limit) < 1 THEN <<>>
    ELSE CollectSimilar([i \in DOMAIN ranking |-> st[ranking[i]]], 1, <<>>, limit)

(***************************************************************************)
(* ReviewService (services/review_service.py)                              *)
(***************************************************************************)
\* Suggestion(...) of one element: pydantic refuses a null suggestion text.
Constructible(sug_data) == Get(sug_data, "suggestion", "") # JsonNull

MakeSuggestion(sug_data, file_path, uuid) ==
    [id |-> uuid,
     line_number |-> Get(sug_data, "line_number", 0),
     file_path |-> file_path,
     category |-> Get(sug_data, "category", "best_practice"),
     suggestion |-> Get(sug_data, "suggestion", ""),
     confidence |-> Get(sug_data, "confidence", DefaultConfidence)]

\* The loop of _parse_llm_response: an element that cannot be constructed
\* raises, the except clause logs, and the list built so far is returned.
RECURSIVE BuildSuggestions(_, _, _, _, _)
BuildSuggestions(items, i, acc, file_path, uuids) ==
    IF i > Len(items) THEN acc
    ELSE IF ~Constructible(items[i]) THEN acc
    ELSE BuildSuggestions(items, i + 1,
                          Append(acc, MakeSuggestion(items[i], file_path, uuids[i])),
                          file_path, uuids)

\* ReviewService._parse_llm_response; uuids[i] is the uuid4 drawn for element i.
ParseLlmResponse(resp, file_path, uuids) ==
    IF ~resp.json THEN <<>>
    ELSE BuildSuggestions(resp.items, 1, <<>>, file_path, uuids)

\* ReviewService._review_file from the engine's answer on: a raising call
\* is caught and gives [].  Result: whether _review_file raises, and its list.
ReviewFile(resp, file_path, uuids) ==
    IF resp.kind = "raise" THEN [raised |-> FALSE, value |-> <<>>]
    ELSE [raised |-> FALSE, value |-> ParseLlmResponse(resp, file_path, uuids)]

\* Variant: each file's list replaces the list so far.
ExtendSuggestionsOverwrite(all, mine) == mine

\* generate_review: all_suggestions.extend(file_suggestions)
ExtendSuggestions(all, mine) == all \o mine

\* Variant: a suggestion exactly at the minimum is dropped too.
FilterByConfidenceStrict(sugs) ==
    SelectSeq(sugs, LAMBDA s : s.confidence > MinConfidence)

\* generate_review's filter: [s for s in all_suggestions if s.confidence >= min]
FilterByConfidence(sugs) ==
    SelectSeq(sugs, LAMBDA s : s.confidence >= MinConfidence)

\* ReviewService.store_review_session: for each file, its suggestions.
RECURSIVE StoreReviewSession(_, _, _, _, _, _)
StoreReviewSession(st, rid, files, sugs, now, policy) ==
    IF files = <<>> THEN st
    ELSE LET path == Head(files)
             mine == SelectSeq(sugs, LAMBDA s : s.file_path = path)
         IN  StoreReviewSession(
                 StoreReviewContext(st, rid, path, BuildCodeContext(path), mine, now, policy),
                 rid, Tail(files), sugs, now, policy)

(***************************************************************************)
(* StatsService (services/stats_service.py)                                *)
(***************************************************************************)
\* Variant: every document counts as feedback.
FeedbackItemsUnfiltered(st) == [i \in DOMAIN st |-> st[i].metadata]

\* The metadata of the documents with feedback, in collection order.
FeedbackItems(st) ==
    LET metas == [i \in DOMAIN st |-> st[i].metadata]
    IN  SelectSeq(metas, LAMBDA m : Get(m, "action", "pending") \in TerminalActions)

\* d[key][field] += 1 on a defaultdict whose missing entries are `fresh`.
Bump(d, key, fresh, field) ==
    LET old == IF key \in DOMAIN d THEN d[key] ELSE fresh
    IN  (key :> [old EXCEPT ![field] = @ + 1]) @@ d

\* f"{(confidence // 20) * 20}-{(confidence // 20) * 20 + 19}"
ConfidenceRange(confidence) ==
    LET lo == (confidence \div BucketWidth) * BucketWidth
    IN  ToString(lo) \o "-" \o ToString(lo + BucketWidth - 1)

\* The counting loop of get_statistics.
RECURSIVE Tally(_, _, _)
Tally(items, i, acc) ==
    IF i > Len(items) THEN acc
    ELSE LET metadata == items[i]
             action == Get(metadata, "action", "")
             category == Get(metadata, "category", "unknown")
             confidence == Get(metadata, "confidence", DefaultConfidence)
             counted ==
                 IF action = "accept"
                 THEN [acc EXCEPT !.accepts = @ + 1,
                                  !.by_category = Bump(@, category, [accept |-> 0, reject |-> 0, edit |-> 0], "accept")]
                 ELSE IF action = "reject"
                 THEN [acc EXCEPT !.rejects = @ + 1,
                                  !.by_category = Bump(@, category, [accept |-> 0, reject |-> 0, edit |-> 0], "reject")]
                 ELSE IF action = "edit"
                 THEN [acc EXCEPT !.edits = @ + 1,
                                  !.by_category = Bump(@, category, [accept |-> 0, reject |-> 0, edit |-> 0], "edit")]
                 ELSE acc
             ranged ==
                 IF action \in {"accept", "reject"}
                 THEN [counted EXCEPT !.by_confidence =
                           Bump(@, ConfidenceRange(confidence), [accept |-> 0, reject |-> 0], action)]
                 ELSE counted
         IN  Tally(items, i + 1, ranged)

\* key=lambda x: x.get("feedback_timestamp", x.get("timestamp", ""))
SortKey(metadata) == Get(metadata, "feedback_timestamp", Get(metadata, "timestamp", 0))

\* sorted(items, key=SortKey, reverse=True): stable, latest first.
RECURSIVE SortedRecentFirst(_)
SortedRecentFirst(items) ==
    IF items = <<>> THEN <<>>
    ELSE LET n == Len(items)
             x == items[n]
             rest == SortedRecentFirst(SubSeq(items, 1, n - 1))
             \* x goes after every element whose key is not smaller
             before == SelectSeq(rest, LAMBDA y : SortKey(y) >= SortKey(x))
             after == SelectSeq(rest, LAMBDA y : SortKey(y) < SortKey(x))
         IN  before \o <<x>> \o after

\* round(accepts / total * 100, 2), in hundredths of a percent.
AcceptanceRate(accepts, total) ==
    IF total > 0 THEN (2 * accepts * 10000 + total) \div (2 * total) ELSE 0

ZeroStatistics ==
    [total_feedback |-> 0, acceptance_rate |-> 0, by_category |-> <<>>,
     by_confidence |-> <<>>, recent_patterns |-> <<>>]

\* get_statistics from "# Calculate statistics" on.
ComputeStatistics(feedback_items) ==
    LET total_feedback == Len(feedback_items)
        t == Tally(feedback_items, 1,
                   [accepts |-> 0, rejects |-> 0, edits |-> 0,
                    by_category |-> <<>>, by_confidence |-> <<>>])
        sorted == SortedRecentFirst(feedback_items)
        sorted_items == SubSeq(sorted, 1, Min(RecentLimit, Len(sorted)))
    IN  [total_feedback |-> total_feedback,
         acceptance_rate |-> AcceptanceRate(t.accepts, total_feedback),
         accepts |-> t.accepts,
         rejects |-> t.rejects,
         edits |-> t.edits,
         by_category |-> t.by_category,
         by_confidence |-> t.by_confidence,
         recent_patterns |->
             [i \in DOMAIN sorted_items |->
                 [category |-> Get(sorted_items[i], "category", ""),
                  action |-> Get(sorted_items[i], "action", ""),
                  confidence |-> Get(sorted_items[i], "confidence", 0),
                  timestamp |-> SortKey(sorted_items[i])]]]

\* Variant: no early return when there is no feedback.
GetStatisticsNoEarlyReturn(st, read_raises) ==
    IF read_raises
    THEN [error |-> "store read failed", total_feedback |-> 0, acceptance_rate |-> 0]
    ELSE ComputeStatistics(FeedbackItems(st))

\* StatsService.get_statistics; read_raises: the collection read raises.
GetStatistics(st, read_raises) ==
    IF read_raises
    THEN [error |-> "store read failed", total_feedback |-> 0, acceptance_rate |-> 0]
    ELSE LET feedback_items == FeedbackItems(st)
         IN  IF feedback_items = <<>> THEN ZeroStatistics
             ELSE ComputeStatistics(feedback_items)

(***************************************************************************)
(* VectorStore.get_review                                                  *)
(***************************************************************************)
\* The distinct values of a sequence, in order of first appearance.
RECURSIVE Distinct(_)
Distinct(q) ==
    IF q = <<>> THEN <<>>
    ELSE LET front == Distinct(SubSeq(q, 1, Len(q) - 1))
             x == q[Len(q)]
         IN  IF x \in Range(front) THEN front ELSE Append(front, x)

SeqMin(q) == CHOOSE x \in Range(q) : \A y \in Range(q) : x <= y

NoReview == [none |-> TRUE]

\* VectorStore.get_review: None, or the review grouped by file.
GetReview(st, rid, now) ==
    LET hits == GetWhere(st, [review_id |-> rid])
        metas == [i \in DOMAIN hits |-> st[hits[i]].metadata]
        entry(m) == [id |-> Get(m, "suggestion_id", ""),
                     line_number |-> Get(m, "line_number", 0),
                     category |-> Get(m, "category", ""),
                     suggestion |-> Get(m, "suggestion", ""),
                     confidence |-> Get(m, "confidence", 0),
                     action |-> Get(m, "action", "pending")]
        paths == Distinct([i \in DOMAIN metas |-> Get(metas[i], "file_path", "unknown")])
        group(path) ==
            LET mine == SelectSeq(metas, LAMBDA m : Get(m, "file_path", "unknown") = path)
            IN  [file_path |-> path, suggestions |-> [i \in DOMAIN mine |-> entry(mine[i])]]
        stamped == SelectSeq(metas, LAMBDA m : "timestamp" \in DOMAIN m)
        timestamps == [i \in DOMAIN stamped |-> stamped[i].timestamp]
    IN  IF hits = <<>> THEN NoReview
        ELSE [review_id |-> rid,
              files |-> [i \in DOMAIN paths |-> group(paths[i])],
              created_at |-> IF timestamps # <<>> THEN SeqMin(timestamps) ELSE now,
              suggestion_count |-> Len(hits)]

(***************************************************************************)
(* VectorStore.get_recent_reviews                                          *)
(***************************************************************************)
\* review_ids: the review ids of the documents that carry one.
ReviewIds(st) ==
    {st[i].metadata.review_id : i \in {j \in DOMAIN st : "review_id" \in DOMAIN st[j].metadata}}

\* list(review_ids): a set of strings iterates in an order that depends on
\* the interpreter's hash seed, so any order of its elements.
Orders(S) ==
    {q \in [1..Cardinality(S) -> S] : \A i, j \in 1..Cardinality(S) : i # j => q[i] # q[j]}

\* q[:limit]
Slice(q, limit) ==
    IF limit >= 0 THEN SubSeq(q, 1, Min(limit, Len(q)))
    ELSE SubSeq(q, 1, IF Len(q) + limit > 0 THEN Len(q) + limit ELSE 0)

\* Variant: the sort without reverse=True.
RECURSIVE SortReviewsAscending(_)
SortReviewsAscending(reviews) ==
    IF reviews = <<>> THEN <<>>
    ELSE LET n == Len(reviews)
             x == reviews[n]
             rest == SortReviewsAscending(SubSeq(reviews, 1, n - 1))
             before == SelectSeq(rest, LAMBDA y : y.created_at <= x.created_at)
             after == SelectSeq(rest, LAMBDA y : y.created_at > x.created_at)
         IN  before \o <<x>> \o after

\* reviews.sort(key=created_at, reverse=True): stable, latest first.
RECURSIVE SortReviews(_)
SortReviews(reviews) ==
    IF reviews = <<>> THEN <<>>
    ELSE LET n == Len(reviews)
             x == reviews[n]
             rest == SortReviews(SubSeq(reviews, 1, n - 1))
             before == SelectSeq(rest, LAMBDA y : y.created_at >= x.created_at)
             after == SelectSeq(rest, LAMBDA y : y.created_at < x.created_at)
         IN  before \o <<x>> \o after

\* VectorStore.get_recent_reviews, given the order the set iterates in.
GetRecentReviews(st, order, limit, now) ==
    LET taken == Slice(order, limit)
        got == [i \in DOMAIN taken |-> GetReview(st, taken[i], now)]
        reviews == SelectSeq(got, LAMBDA r : r # NoReview)
    IN  SortReviews(reviews)

(***************************************************************************)
(* The state after construction: an empty collection, no request served.   *)
(***************************************************************************)
NoResponse == [status |-> 0]
NoRequest == [source |-> NoneVal]
NoCall == [op |-> "none"]

Init ==
    /\ store = <<>>
    /\ clock = 1
    /\ nextReview = 0
    /\ pc = "idle"
    /\ review_id = 0
    /\ parsed_files = <<>>
    /\ llm_responses = <<>>
    /\ file_suggestions = <<>>
    /\ all_suggestions = <<>>
    /\ fetch_request = NoRequest
    /\ outbound = [r \in 1..MaxRequests |-> "idle"]
    /\ suggestions = <<>>
    /\ response = NoResponse
    /\ nFeedback = 0
    /\ ret = NoCall

\* Time passes.
Tick ==
    /\ clock < MaxClock
    /\ clock' = clock + 1
    /\ UNCHANGED <<store, reviewVars, nFeedback, ret, outbound>>

(***************************************************************************)
(* POST /api/review (api/review.py create_review)                          *)
(***************************************************************************)
ReviewRequests ==
    [source : {"github", "diff", "svn"},
     url : {NoneVal, "https://github.com/o/r/pull/1", "not a pull request url"},
     repo : BOOLEAN,          \* repo_owner, repo_name and pr_number all given
     content : BOOLEAN]       \* content given and not empty

\* Any exception inside the handler, an HTTPException(400) included, reaches
\* its `except Exception` and leaves as HTTPException(500, detail=str(e)).
Fail(cause) ==
    /\ pc' = "done"
    /\ response' = [status |-> 500, cause |-> cause]
    /\ suggestions' = <<>>
    /\ UNCHANGED store

\* create_review from DiffParser.parse on, up to the first engine call.
ParseAndStart(raw) ==
    IF ~raw.wellformed
    THEN /\ Fail("parse")
         /\ parsed_files' = <<>>
    ELSE LET files == ParseFiles(raw)
         IN  /\ parsed_files' = files
             \* with no file to review generate_review returns [] at once
             /\ pc' = IF files = <<>> THEN "generated" ELSE "llm"
             /\ suggestions' = <<>>
             /\ response' = NoResponse
             /\ UNCHANGED store

\* A request arrives and runs to its first suspension.
CreateReview(request, token, raw) ==
    /\ pc \in {"idle", "done", "abandoned"}
    /\ nextReview < MaxReviews
    /\ nextReview' = nextReview + 1
    /\ review_id' = nextReview + 1
    /\ llm_responses' = <<>>
    /\ file_suggestions' = <<>>
    /\ all_suggestions' = <<>>
    /\ IF request.source = "github"
       THEN IF ~Truthy(request.url) /\ ~request.repo
            THEN Fail("400 GitHub URL or repo details required") /\ parsed_files' = <<>>
            ELSE IF ~token
            THEN Fail("GitHub token not configured") /\ parsed_files' = <<>>
            ELSE IF Truthy(request.url) /\ request.url # "https://github.com/o/r/pull/1"
            THEN Fail("Invalid GitHub PR URL") /\ parsed_files' = <<>>
            ELSE /\ pc' = "fetch"
                 /\ parsed_files' = <<>>
                 /\ suggestions' = <<>>
                 /\ response' = NoResponse
                 /\ UNCHANGED store
       ELSE IF request.source = "diff"
       THEN IF ~request.content
            THEN Fail("400 Diff content required") /\ parsed_files' = <<>>
            ELSE ParseAndStart(raw)
       ELSE Fail("400 Invalid source type") /\ parsed_files' = <<>>
    /\ fetch_request' = IF pc' = "fetch" THEN request ELSE NoRequest
    /\ UNCHANGED <<clock, nFeedback, ret, outbound>>

\* The executor's diff fetch returns: it raised, or it has the diff text.
FetchReturn(raised, raw) ==
    /\ pc = "fetch"
    /\ UNCHANGED <<review_id, nextReview, llm_responses, file_suggestions, all_suggestions,
                   clock, nFeedback, ret, outbound>>
    /\ fetch_request' = NoRequest
    /\ IF raised
       THEN Fail("fetch") /\ parsed_files' = <<>>
       ELSE ParseAndStart(raw)

\* The executor's engine call for the current file returns.  _review_file
\* finishes; generate_review goes on to the next file's engine call or, after
\* the last file, filters and returns.  The collection becomes `written`.
Answer(resp, written) ==
    /\ pc = "llm"
    /\ UNCHANGED <<review_id, nextReview, parsed_files, fetch_request, clock, nFeedback, ret,
                   outbound>>
    /\ LET idx == Len(llm_responses) + 1
           path == parsed_files[idx]
           uuids == [i \in 1..Len(resp.items) |-> <<review_id, idx, i>>]
           mine == ReviewFile(resp, path, uuids)
           extended == ExtendSuggestions(all_suggestions, mine.value)
           filtered == FilterByConfidence(extended)
       IN  /\ Len(store) + Len(filtered) <= MaxRecords
           /\ llm_responses' = Append(llm_responses, resp)
           /\ IF mine.raised
              THEN \* the exception leaves generate_review and reaches the handler
                   /\ pc' = "done"
                   /\ response' = [status |-> 500, cause |-> "generate"]
                   /\ UNCHANGED <<file_suggestions, all_suggestions, suggestions>>
              ELSE /\ file_suggestions' = Append(file_suggestions, mine.value)
                   /\ all_suggestions' = extended
                   /\ IF idx < Len(parsed_files)
                      THEN UNCHANGED <<pc, suggestions>>
                      ELSE /\ suggestions' = filtered
                           /\ pc' = "generated"
                   /\ UNCHANGED response
           /\ store' = written

\* Variant: each file's suggestions are stored as soon as its call returns.
LlmReturnStoresEarly(resp) ==
    Answer(resp,
           LET idx == Len(llm_responses) + 1
               path == parsed_files[idx]
               uuids == [i \in 1..Len(resp.items) |-> <<review_id, idx, i>>]
           IN  StoreReviewContext(store, review_id, path, BuildCodeContext(path),
                                  FilterByConfidence(ReviewFile(resp, path, uuids).value),
                                  clock, "ignore"))

\* Nothing is written to the collection while generate_review runs.
LlmReturn(resp) == Answer(resp, store)

\* create_review after generate_review has returned: store_review_session,
\* then the response.  generate_review's locals are gone.
StoreSession(policy) ==
    /\ pc = "generated"
    /\ store' = StoreReviewSession(store, review_id, parsed_files, suggestions, clock, policy)
    /\ response' = [status |-> 200, review_id |-> review_id, suggestions |-> suggestions,
                    file_count |-> Len(parsed_files)]
    /\ pc' = "done"
    /\ llm_responses' = <<>>
    /\ file_suggestions' = <<>>
    /\ all_suggestions' = <<>>
    /\ UNCHANGED <<review_id, nextReview, parsed_files, fetch_request, suggestions, clock,
                   nFeedback, ret, outbound>>

\* The client goes away while the request waits on the executor: the task
\* is cancelled (CancelledError passes every `except Exception`).
Abandon ==
    /\ pc \in {"fetch", "llm"}
    /\ pc' = "abandoned"
    /\ fetch_request' = NoRequest
    /\ UNCHANGED <<store, clock, review_id, nextReview, parsed_files, llm_responses,
                   file_suggestions, all_suggestions, suggestions, response, nFeedback, ret,
                   outbound>>

(***************************************************************************)
(* POST /api/feedback (api/feedback.py submit_feedback)                    *)
(***************************************************************************)
UnknownSuggestion == <<0, 0, 0>>

\* submit_feedback -> FeedbackService.process_feedback -> VectorStore.store_feedback.
\* An action outside the enum raises HTTPException(400) inside the handler's
\* try block, which its `except Exception` turns into HTTPException(500).
SubmitFeedback(rid, sid, action, reason, edited) ==
    /\ nFeedback < MaxFeedback
    /\ nFeedback' = nFeedback + 1
    /\ IF action \notin TerminalActions
       THEN /\ ret' = [op |-> "submit_feedback", review_id |-> rid, suggestion_id |-> sid,
                       action |-> action, reason |-> reason, edited_suggestion |-> edited,
                       status |-> 500, found |-> FALSE, metadata |-> <<>>]
            /\ UNCHANGED store
       ELSE LET done == StoreFeedback(store, rid, sid, action, reason, edited, clock)
            IN  /\ store' = done.st
                /\ ret' = [op |-> "submit_feedback", review_id |-> rid, suggestion_id |-> sid,
                           action |-> action, reason |-> reason, edited_suggestion |-> edited,
                           status |-> 200, found |-> done.found, metadata |-> done.metadata]
    /\ UNCHANGED <<clock, reviewVars, outbound>>

(***************************************************************************)
(* GET /api/stats (api/stats.py get_stats)                                 *)
(***************************************************************************)
\* get_statistics catches every exception of its own body, so with the
\* service constructed the handler's except clause is not entered: status 200.
GetStats(read_raises) ==
    /\ ret' = [op |-> "get_stats", status |-> 200, read_raised |-> read_raises,
               body |-> GetStatistics(store, read_raises)]
    /\ UNCHANGED <<store, clock, reviewVars, nFeedback, outbound>>

(***************************************************************************)
(* VectorStore.find_similar_code, called with any limit                    *)
(***************************************************************************)
FindSimilarCode(limit, ranking) ==
    /\ ret' = [op |-> "find_similar_code", limit |-> limit,
               result |-> FindSimilar(store, ranking, limit)]
    /\ UNCHANGED <<store, clock, reviewVars, nFeedback, outbound>>

(***************************************************************************)
(* GET /api/reviews (api/review.py get_reviews)                            *)
(***************************************************************************)
\* get_reviews -> ReviewService.get_recent_reviews -> VectorStore.get_recent_reviews.
GetReviews(limit, order) ==
    /\ ret' = [op |-> "get_recent_reviews", status |-> 200, limit |-> limit,
               result |-> GetRecentReviews(store, order, limit, clock)]
    /\ UNCHANGED <<store, clock, reviewVars, nFeedback, outbound>>

(***************************************************************************)
(* GET /api/review/{review_id} (api/review.py get_review)                  *)
(***************************************************************************)
\* get_review -> ReviewService.get_review -> VectorStore.get_review.  The
\* HTTPException(404) raised for None passes `except HTTPException: raise`.
GetReviewById(rid) ==
    /\ LET review == GetReview(store, rid, clock)
       IN  ret' = IF review = NoReview
                  THEN [op |-> "get_review", review_id |-> rid, status |-> 404,
                        body |-> NoReview]
                  ELSE [op |-> "get_review", review_id |-> rid, status |-> 200,
                        body |-> review]
    /\ UNCHANGED <<store, clock, reviewVars, nFeedback, outbound>>

(***************************************************************************)
(* The system                                                              *)
(***************************************************************************)
DuplicatePolicies == {"raise", "ignore", "upsert"}

NoDiff == [wellformed |-> TRUE, files |-> <<>>]

\* A request arrives; inputs a branch never reads are held at one value.
Arrive(requests, diffs) ==
    \E request \in requests :
        \E token \in (IF request.source = "github" THEN BOOLEAN ELSE {TRUE}),
           raw \in (IF request.source = "diff" /\ request.content THEN diffs ELSE {NoDiff}) :
            CreateReview(request, token, raw)

Fetched == (\E raw \in RawDiffs : FetchReturn(FALSE, raw)) \/ FetchReturn(TRUE, NoDiff)

Answered(responses) == \E resp \in responses : LlmReturn(resp)

Stored == \E policy \in DuplicatePolicies : StoreSession(policy)

FeedbackBodies ==
    {[action |-> "accept", reason |-> NoneVal, edited |-> NoneVal],
     [action |-> "reject", reason |-> "too strict", edited |-> NoneVal],
     [action |-> "edit", reason |-> NoneVal, edited |-> "use str.format"],
     [action |-> "edit", reason |-> NoneVal, edited |-> ""],
     [action |-> "approve", reason |-> NoneVal, edited |-> NoneVal]}

\* What a client may name: a stored suggestion, a review with a suggestion
\* id it does not have, or ids never handed out.
FeedbackTargets ==
    {<<store[i].metadata.review_id, store[i].metadata.suggestion_id>> : i \in DOMAIN store}
        \cup {<<store[i].metadata.review_id, UnknownSuggestion>> : i \in DOMAIN store}
        \cup {<<0, UnknownSuggestion>>}

Feedback ==
    \E t \in FeedbackTargets, b \in FeedbackBodies :
        SubmitFeedback(t[1], t[2], b.action, b.reason, b.edited)

Stats == \E read_raises \in BOOLEAN : GetStats(read_raises)

Similar ==
    \E limit \in 0..MaxLimit :
        \E ranking \in Rankings(store, NResults(limit)) : FindSimilarCode(limit, ranking)

Recent ==
    \E limit \in 0..MaxLimit :
        \E order \in Orders(ReviewIds(store)) : GetReviews(limit, order)

\* Any review id a client may ask for: one handed out, or one never handed out.
Detail == \E rid \in 0..MaxReviews : GetReviewById(rid)

\* Direct-diff traffic: diffs of one changed file, and short answers of the
\* engine (at most one element, or one answer of two elements that both pass).
DiffRequests == {r \in ReviewRequests : r.source = "diff" /\ r.content /\ r.url = NoneVal /\ ~r.repo}
OneFileDiffs == {[wellformed |-> TRUE, files |-> <<[path |-> "a.py", is_removed_file |-> FALSE]>>]}
ShortResponses ==
    ResponsesUpTo(1)
        \cup {[kind |-> "text", json |-> TRUE,
               items |-> <<[line_number |-> 10, category |-> "style",
                            suggestion |-> "use f-string", confidence |-> 80],
                           [confidence |-> 30]>>]}

\* The whole service under direct-diff traffic.
Next ==
    \/ Tick
    \/ Arrive(DiffRequests, OneFileDiffs)
    \/ Answered(ShortResponses)
    \/ Stored
    \/ Feedback
    \/ Stats
    \/ Similar
    \/ Recent
    \/ Detail

Spec == Init /\ [][Next]_vars

\* Review creation alone, with every request, diff and answer of the engine.
NextGen ==
    \/ Arrive(ReviewRequests, RawDiffs)
    \/ Fetched
    \/ Answered(LlmResponses)
    \/ Stored
    \/ Abandon

SpecGen == Init /\ [][NextGen]_vars

(***************************************************************************)
(* DiffParser.get_file_context, called on parsed diffs                     *)
(***************************************************************************)
MaxLine == 7
MaxWindow == 2

\* The line kinds of a hunk: context, added, removed.
HunkKinds == {<<" ", "+">>, <<"-", "+", " ">>, <<"+">>}

TargetLength(kinds) == Len(SelectSeq(kinds, LAMBDA k : k # "-"))

\* The files named "a.py" of the diffs: one hunk, or two hunks in ascending
\* order that touch or leave unchanged lines between them.
OneHunkFiles ==
    {[path |-> "a.py", hunks |-> <<[lines |-> HunkLines(start, kinds, "x")]>>] :
        start \in {1, 3}, kinds \in HunkKinds}

TwoHunkFiles ==
    {[path |-> "a.py",
      hunks |-> <<[lines |-> HunkLines(1, first, "x")],
                  [lines |-> HunkLines(1 + TargetLength(first) + gap, second, "y")]>>] :
        first \in HunkKinds, second \in HunkKinds, gap \in {0, 2}}

OtherFile == [path |-> "b.py", hunks |-> <<[lines |-> HunkLines(2, <<"+", " ">>, "z")]>>]
SamePathAgain == [path |-> "a.py", hunks |-> <<[lines |-> HunkLines(2, <<"+", " ">>, "w")]>>]

\* ParsedDiff.files: the file alone, after another file, or before a second
\* entry of its own path.
ContextDiffs ==
    LET files == OneHunkFiles \cup TwoHunkFiles
    IN  {<<f>> : f \in files} \cup {<<OtherFile, f>> : f \in files}
            \cup {<<f, SamePathAgain>> : f \in files}

\* One call; the method reads nothing but its arguments, so a second call
\* shows nothing the first could not.
FileContext(files, file_path, line_number, context_lines) ==
    /\ ret = NoCall
    /\ ret' = [op |-> "get_file_context", files |-> files, file_path |-> file_path,
               line_number |-> line_number, context_lines |-> context_lines]
                  @@ GetFileContext(files, file_path, line_number, context_lines)
    /\ UNCHANGED <<store, clock, reviewVars, nFeedback, outbound>>

NextCtx ==
    \E files \in ContextDiffs, file_path \in {"a.py", "c.py"},
       line_number \in 0..MaxLine, context_lines \in 0..MaxWindow :
        FileContext(files, file_path, line_number, context_lines)

SpecCtx == Init /\ [][NextCtx]_vars

(***************************************************************************)
(* Properties of the whole service (Spec)                                  *)
(***************************************************************************)
\* C1: whatever the store holds and however the query ranks it,
\* find_similar_code returns no entry whose action is "pending" and at most
\* `limit` entries.
C1_NoPendingAtMostLimit ==
    ret.op = "find_similar_code" =>
        /\ \A i \in DOMAIN ret.result : ret.result[i].action # "pending"
        /\ \A i \in DOMAIN ret.result : ret.result[i].action \in {"accept", "reject", "edit"}
        /\ Len(ret.result) <= ret.limit

\* A call with limit 1 on a store holding a pending record and two records
\* with feedback: one entry came back.
C1_Witness ==
    /\ ret.op = "find_similar_code"
    /\ ret.limit = 1
    /\ Len(ret.result) = 1
    /\ \E i \in DOMAIN store : store[i].metadata.action = "pending"
    /\ \E i, j \in DOMAIN store :
           /\ i # j
           /\ store[i].metadata.action # "pending"
           /\ store[j].metadata.action # "pending"

\* C2: when store_feedback is called on a suggestion that already carries
\* the feedback of an earlier call with another action, the record afterwards
\* carries the second call's action and reason; get_review shows the second
\* action for that suggestion and get_statistics counts it under the second
\* action and no longer under the first.
C2_LastWriteWins ==
    (/\ ret.op = "submit_feedback"
     /\ ret.found
     /\ ret.metadata.action \in {"accept", "reject", "edit"}
     /\ ret.metadata.action # ret.action)
    => LET mine == {i \in DOMAIN store :
                        /\ store[i].metadata.review_id = ret.review_id
                        /\ store[i].metadata.suggestion_id = ret.suggestion_id}
           first == ret.metadata.action
           others(a) == Cardinality({i \in DOMAIN store \ mine : store[i].metadata.action = a})
           review == GetReview(store, ret.review_id, clock)
           stats == GetStatistics(store, FALSE)
           shown(a) == IF a = "accept" THEN stats.accepts
                       ELSE IF a = "reject" THEN stats.rejects ELSE stats.edits
       IN  /\ Cardinality(mine) = 1
           /\ \A i \in mine :
                  /\ store[i].metadata.action = ret.action
                  /\ store[i].metadata.reason = (IF ret.reason = NoneVal THEN "" ELSE ret.reason)
           /\ \A f \in DOMAIN review.files : \A k \in DOMAIN review.files[f].suggestions :
                  review.files[f].suggestions[k].id = ret.suggestion_id
                      => review.files[f].suggestions[k].action = ret.action
           /\ shown(first) = others(first)
           /\ shown(ret.action) = others(ret.action) + 1
           /\ \A k \in DOMAIN stats.recent_patterns :
                  stats.recent_patterns[k].action = first => others(first) > 0

\* A second call with another action has been made on a suggestion.
C2_Witness ==
    /\ ret.op = "submit_feedback"
    /\ ret.found
    /\ ret.metadata.action = "reject"
    /\ ret.metadata.reason = "too strict"
    /\ ret.action = "edit"
    /\ \E i \in DOMAIN store :
           /\ store[i].metadata.suggestion_id = ret.suggestion_id
           /\ store[i].metadata.action = "edit"
           /\ store[i].metadata.reason = ""

\* C3: a store_feedback call whose (review id, suggestion id) pair matches
\* no stored record returns normally and leaves the collection as it was.
C3_UnknownPairIsNoOp ==
    [][(/\ nFeedback' # nFeedback
        /\ ret'.op = "submit_feedback"
        /\ ret'.action \in {"accept", "reject", "edit"}
        /\ ~\E i \in DOMAIN store :
               /\ store[i].metadata.review_id = ret'.review_id
               /\ store[i].metadata.suggestion_id = ret'.suggestion_id)
       => (store' = store /\ ret'.status = 200 /\ ~ret'.found)]_vars

\* Feedback was sent for a stored review with a suggestion id it does not have.
C3_Witness ==
    /\ ret.op = "submit_feedback"
    /\ ret.action \in {"accept", "reject", "edit"}
    /\ ret.status = 200
    /\ ~ret.found
    /\ ret.suggestion_id = UnknownSuggestion
    /\ \E i \in DOMAIN store : store[i].metadata.review_id = ret.review_id
    /\ \A i \in DOMAIN store : store[i].metadata.action = "pending"

\* The number of stored records whose current action is a.
RecordsWith(a) == Cardinality({i \in DOMAIN store : store[i].metadata.action = a})

\* The sum of d[k][field] over the keys k of d.
RECURSIVE SumOver(_, _)
SumOver(d, field) ==
    IF DOMAIN d = {} THEN 0
    ELSE LET k == CHOOSE x \in DOMAIN d : TRUE
         IN  d[k][field] + SumOver([x \in DOMAIN d \ {k} |-> d[x]], field)

\* The statistics carry the three counts, each the number of records with
\* that current action, their sum as total_feedback, and per-category counts
\* that add up to them.
CountsMatch(body) ==
    /\ {"accepts", "rejects", "edits"} \subseteq DOMAIN body
    /\ body.accepts = RecordsWith("accept")
    /\ body.rejects = RecordsWith("reject")
    /\ body.edits = RecordsWith("edit")
    /\ body.total_feedback = body.accepts + body.rejects + body.edits
    /\ SumOver(body.by_category, "accept") = body.accepts
    /\ SumOver(body.by_category, "reject") = body.rejects
    /\ SumOver(body.by_category, "edit") = body.edits

\* C8 as stated: after any sequence of store_feedback calls, get_statistics
\* reports accepts, rejects and edits equal to the numbers of records with
\* that current action, total_feedback equal to their sum, and per-category
\* counts adding up to the totals.
C8_CountsAlwaysReported ==
    (ret.op = "get_stats" /\ ~ret.read_raised) => CountsMatch(ret.body)

\* C8: once at least one record has feedback, get_statistics (its store
\* read succeeding) reports accepts, rejects and edits equal to the numbers of
\* records with that current action, total_feedback equal to their sum, and
\* per-category counts adding up to the totals; while no record has feedback
\* it reports total_feedback 0, no per-category counts, and no accepts,
\* rejects or edits field at all.
C8_CountsReportedOnceFeedbackExists ==
    (ret.op = "get_stats" /\ ~ret.read_raised) =>
        IF \E i \in DOMAIN store : store[i].metadata.action \in {"accept", "reject", "edit"}
        THEN CountsMatch(ret.body)
        ELSE /\ ret.body.total_feedback = 0
             /\ ret.body.by_category = <<>>
             /\ DOMAIN ret.body \cap {"accepts", "rejects", "edits"} = {}

\* One reject on a pending record of an otherwise unjudged store, then the
\* statistics: rejects is 1.
C8_Witness ==
    /\ ret.op = "get_stats"
    /\ ~ret.read_raised
    /\ RecordsWith("reject") = 1
    /\ RecordsWith("pending") = Len(store) - 1
    /\ Len(store) >= 2
    /\ "rejects" \in DOMAIN ret.body
    /\ ret.body.rejects = 1
    /\ ret.body.total_feedback = 1

\* C9: while no stored record has feedback, get_statistics (its store read
\* succeeding) answers with exactly total_feedback 0, acceptance_rate 0, empty
\* by_category and by_confidence and an empty recent_patterns, and reports no
\* error.
C9_ZeroedWithoutFeedback ==
    (/\ ret.op = "get_stats"
     /\ ~ret.read_raised
     /\ \A i \in DOMAIN store : store[i].metadata.action = "pending")
    => /\ ret.status = 200
       /\ ret.body = [total_feedback |-> 0, acceptance_rate |-> 0, by_category |-> <<>>,
                      by_confidence |-> <<>>, recent_patterns |-> <<>>]
       /\ "error" \notin DOMAIN ret.body

\* The statistics were asked for while the store held only pending records.
C9_Witness ==
    /\ ret.op = "get_stats"
    /\ ~ret.read_raised
    /\ store # <<>>
    /\ \A i \in DOMAIN store : store[i].metadata.action = "pending"
    /\ ret.body.total_feedback = 0

\* C10 as stated: when the statistics computation fails, the caller gets a
\* zeroed structure with the same fields as a successful answer.
C10_FailureKeepsAllFields ==
    (ret.op = "get_stats" /\ ret.read_raised) =>
        /\ ret.status = 200
        /\ ret.body.total_feedback = 0
        /\ ret.body.acceptance_rate = 0
        /\ {"by_category", "by_confidence", "recent_patterns"} \subseteq DOMAIN ret.body

(***************************************************************************)
(* Properties of review creation (SpecGen)                                 *)
(***************************************************************************)
\* C4: when generate_review returns, its result holds every generated
\* suggestion whose confidence is at least the configured minimum, each once,
\* and no suggestion whose confidence is below it; the response of the
\* request carries none below it either.
C4_ConfidenceFilter ==
    /\ pc = "generated" =>
           /\ \A s \in Range(suggestions) : s.confidence >= MinConfidence
           /\ Range(suggestions) \subseteq Range(all_suggestions)
           /\ \A g \in Range(all_suggestions) :
                  g.confidence >= MinConfidence => g \in Range(suggestions)
           /\ Cardinality(Range(suggestions)) = Len(suggestions)
    /\ (pc = "done" /\ response.status = 200) =>
           \A s \in Range(response.suggestions) : s.confidence >= MinConfidence

\* generate_review has returned after the engine proposed a suggestion below
\* the minimum and one exactly at it.
C4_Witness ==
    /\ pc = "generated"
    /\ \E g \in Range(all_suggestions) : g.confidence < MinConfidence
    /\ \E s \in Range(suggestions) : s.confidence = MinConfidence

\* C5: when the engine's answer for a file is not JSON, that file
\* contributes no suggestion, generate_review still returns every suggestion
\* of the other files that passes the confidence filter, and no exception
\* leaves generate_review.
C5_MalformedAnswerIsolated ==
    /\ pc = "generated" =>
           \A i \in DOMAIN llm_responses :
               (llm_responses[i].kind = "text" /\ ~llm_responses[i].json) =>
                   /\ file_suggestions[i] = <<>>
                   /\ \A s \in Range(suggestions) : s.id[2] # i
                   /\ \A j \in DOMAIN file_suggestions \ {i} :
                          \A s \in Range(file_suggestions[j]) :
                              s.confidence >= MinConfidence => s \in Range(suggestions)
    /\ (pc = "done" /\ response.status = 500) => response.cause # "generate"

\* Two files were reviewed, the answer for the second was not JSON, and the
\* first file's suggestions were returned.
C5_Witness ==
    /\ pc = "generated"
    /\ Len(llm_responses) = 2
    /\ llm_responses[2].kind = "text"
    /\ ~llm_responses[2].json
    /\ file_suggestions[1] # <<>>
    /\ suggestions # <<>>

\* C6: when a review request has been answered, the store holds for each
\* returned suggestion exactly one record, under the key made of the review
\* id, the suggestion's file path and its id, with action "pending"; and it
\* holds no other record with that review id.
C6_OneRecordPerSuggestion ==
    (pc = "done" /\ response.status = 200) =>
        LET R == response.review_id
            mine == {i \in DOMAIN store : store[i].metadata.review_id = R}
        IN  /\ \A s \in Range(response.suggestions) :
                   \E i \in mine :
                       /\ store[i].id = <<R, s.file_path, s.id>>
                       /\ store[i].metadata.suggestion_id = s.id
                       /\ store[i].metadata.action = "pending"
                       /\ \A j \in DOMAIN store : store[j].id = store[i].id => j = i
            /\ \A i \in mine :
                   \E s \in Range(response.suggestions) :
                       store[i].id = <<R, s.file_path, s.id>>
            /\ Cardinality(mine) = Len(response.suggestions)

\* A review of two files with a suggestion each was stored beside the record
\* of an earlier review.
C6_Witness ==
    /\ pc = "done"
    /\ response.status = 200
    /\ Len(response.suggestions) = 2
    /\ response.suggestions[1].file_path # response.suggestions[2].file_path
    /\ Len(store) = 3
    /\ \E i \in DOMAIN store : store[i].metadata.review_id # response.review_id

\* C7: the store holds no record of a review while its diff is fetched, while
\* its files are with the engine, or before generate_review has returned; and
\* a request that failed or was abandoned has left none.
C7_NothingStoredBeforeGenerationEnds ==
    LET mine == {i \in DOMAIN store : store[i].metadata.review_id = review_id}
    IN  /\ pc \in {"fetch", "llm", "generated"} => mine = {}
        /\ (pc = "abandoned" \/ (pc = "done" /\ response.status = 500)) => mine = {}
        /\ mine # {} => (pc = "done" /\ response.status = 200 /\ response.review_id = review_id)

\* A request was abandoned after the engine had answered for its first file
\* with a suggestion that passes the filter, an earlier review being stored.
C7_Witness ==
    /\ pc = "abandoned"
    /\ Len(parsed_files) = 2
    /\ Len(file_suggestions) = 1
    /\ \E s \in Range(file_suggestions[1]) : s.confidence >= MinConfidence
    /\ store # <<>>

(***************************************************************************)
(* Properties of the handlers' error answers                               *)
(***************************************************************************)
\* C11 as stated: a request that fails validation is answered with status
\* 400: feedback with an action outside accept, reject, edit, and a review
\* request with source "diff" and no content or with an unknown source.
C11_ValidationAnswers400 ==
    /\ (ret.op = "submit_feedback" /\ ret.action \notin {"accept", "reject", "edit"})
           => ret.status = 400
    /\ (/\ pc = "done"
        /\ response.status # 200
        /\ response.cause \in {"400 Diff content required", "400 Invalid source type"})
           => response.status = 400

\* C12 as stated: a review request with source "github" starts a diff fetch
\* only when exactly one of url and the triple (repo_owner, repo_name,
\* pr_number) is present; with neither or with both it is answered 400.
C12_ExactlyOneOfUrlOrTriple ==
    /\ pc = "fetch" => (Truthy(fetch_request.url) # fetch_request.repo)
    /\ (/\ pc = "done"
        /\ response.status # 200
        /\ response.cause = "400 GitHub URL or repo details required")
           => response.status = 400

\* C12, the part about a request carrying both: no diff fetch is started for
\* a request that has a url and the full triple.
C12_BothIsRefused ==
    pc = "fetch" => ~(Truthy(fetch_request.url) /\ fetch_request.repo)

\* C13 as stated: when the engine's call raised for a file of the request,
\* or the diff fetch raised, the request is answered with status 500 and a
\* message, never with a success response.
C13_UpstreamFailureAnswers500 ==
    [][/\ (/\ pc = "generated"
           /\ pc' = "done"
           /\ \E i \in DOMAIN llm_responses : llm_responses[i].kind = "raise")
              => (response'.status = 500 /\ "cause" \in DOMAIN response')
       /\ (pc = "fetch" /\ pc' = "done")
              => (response'.status = 500 /\ "cause" \in DOMAIN response')]_vars

(***************************************************************************)
(* Properties of get_recent_reviews (Spec)                                 *)
(***************************************************************************)
\* The review ids of the stored records.
StoredReviews == {store[k].metadata.review_id : k \in DOMAIN store}

\* The earliest timestamp among the stored records of review r.
EarliestTimestamp(r) ==
    LET T == {store[k].metadata.timestamp :
                  k \in {i \in DOMAIN store : store[i].metadata.review_id = r}}
    IN  CHOOSE t \in T : \A u \in T : t <= u

\* C14: whatever the store holds, for every limit >= 0 and every order in
\* which the set of review ids iterates, get_recent_reviews returns at most
\* `limit` summaries, each of a different review that has a stored record,
\* each with the earliest timestamp of its review as creation time, ordered by
\* creation time descending; and the call leaves the store as it was.
C14_RecentReviewsBoundedDistinctOrdered ==
    [][(ret' # ret /\ ret'.op = "get_recent_reviews") =>
           LET result == ret'.result
           IN  /\ store' = store
               /\ Len(result) <= ret'.limit
               /\ \A i, j \in DOMAIN result :
                      i # j => result[i].review_id # result[j].review_id
               /\ \A i \in DOMAIN result :
                      /\ result[i].review_id \in StoredReviews
                      /\ result[i].created_at = EarliestTimestamp(result[i].review_id)
               /\ \A i, j \in DOMAIN result :
                      i < j => result[i].created_at >= result[j].created_at]_vars

\* Two reviews created at different times were both returned, the later first.
C14_Witness ==
    /\ ret.op = "get_recent_reviews"
    /\ ret.limit = 2
    /\ Len(ret.result) = 2
    /\ ret.result[1].created_at > ret.result[2].created_at
    /\ ret.result[1].review_id \in StoredReviews
    /\ ret.result[2].review_id \in StoredReviews

\* C20 as stated: when the store holds more than `limit` reviews,
\* get_recent_reviews returns `limit` of them and no review left out was
\* created later than one that is returned.
C20_MostRecentReturned ==
    [][(/\ ret' # ret
        /\ ret'.op = "get_recent_reviews"
        /\ Cardinality(StoredReviews) > ret'.limit) =>
           LET result == ret'.result
               returned == {result[i].review_id : i \in DOMAIN result}
           IN  /\ Len(result) = ret'.limit
               /\ \A r \in StoredReviews \ returned : \A i \in DOMAIN result :
                      EarliestTimestamp(r) <= result[i].created_at]_vars

(***************************************************************************)
(* Properties of get_file_context (SpecCtx)                                *)
(***************************************************************************)
\* The first file of the diff with the path asked for, as a set of at most one.
AskedFile ==
    LET hits == {i \in DOMAIN ret.files : ret.files[i].path = ret.file_path}
    IN  {ret.files[i] : i \in {j \in hits : \A k \in hits : j <= k}}

\* The lines of file f with the index of their hunk, in hunk order.
NumberedLines(f) ==
    LET RECURSIVE from(_)
        from(h) == IF h > Len(f.hunks) THEN <<>>
                   ELSE [i \in DOMAIN f.hunks[h].lines |->
                            [hunk |-> h, line |-> f.hunks[h].lines[i]]] \o from(h + 1)
    IN  from(1)

\* The positions in NumberedLines(f) of the lines whose target line number
\* is within the window of the line asked for.
Selected(f) ==
    LET all == NumberedLines(f)
    IN  {p \in DOMAIN all :
            /\ "target_line_no" \in DOMAIN all[p].line
            /\ all[p].line.target_line_no - ret.line_number <= ret.context_lines
            /\ ret.line_number - all[p].line.target_line_no <= ret.context_lines}

\* The returned lines are exactly the selected ones, in their original order,
\* each as "<target line number>: <text>"; nothing is returned for a path that
\* is not in the diff.
ExactlyTheWindow ==
    /\ AskedFile = {} => ret.result = ""
    /\ \A f \in AskedFile :
           LET all == NumberedLines(f)
               P == Selected(f)
           IN  /\ Len(ret.context) = Cardinality(P)
               /\ \A p \in P :
                      ret.context[Cardinality({q \in P : q <= p})]
                          = ToString(all[p].line.target_line_no) \o ": " \o all[p].line.value
               /\ (P = {}) = (ret.result = "")
               /\ Cardinality(P) = 1 => ret.result = ret.context[1]

\* C15 as stated: get_file_context returns exactly the lines within the
\* window in their original order, "" for a file that is not in the diff, and
\* the target line numbers of the returned lines form a run without gaps.
C15_WindowIsGaplessRun ==
    ret.op = "get_file_context" =>
        /\ ExactlyTheWindow
        /\ \A f \in AskedFile :
               LET all == NumberedLines(f)
                   P == Selected(f)
               IN  \A p, q \in P :
                       (p < q /\ ~\E r \in P : p < r /\ r < q)
                           => all[q].line.target_line_no = all[p].line.target_line_no + 1

\* C15: get_file_context returns exactly the lines, of the first entry of
\* the diff with that path, whose target line number is within the window,
\* in their original order, and "" for a path that is not in the diff; two
\* lines returned one after the other from the same hunk have consecutive
\* target line numbers (between hunks the numbers may jump).
C15_WindowGaplessWithinHunk ==
    ret.op = "get_file_context" =>
        /\ ExactlyTheWindow
        /\ \A f \in AskedFile :
               LET all == NumberedLines(f)
                   P == Selected(f)
               IN  \A p, q \in P :
                       (p < q /\ all[p].hunk = all[q].hunk /\ ~\E r \in P : p < r /\ r < q)
                           => all[q].line.target_line_no = all[p].line.target_line_no + 1

\* A window over two hunks with unchanged lines between them: lines of both
\* hunks were returned, and a removed line in between was not.
C15_Witness ==
    /\ ret.op = "get_file_context"
    /\ ret.found
    /\ Len(ret.files) = 1
    /\ Len(ret.files[1].hunks) = 2
    /\ \E f \in AskedFile :
           LET all == NumberedLines(f)
               P == Selected(f)
           IN  /\ \E p, q \in P : all[p].hunk = 1 /\ all[q].hunk = 2
               /\ \E r \in DOMAIN all \ P : "target_line_no" \notin DOMAIN all[r].line
               /\ \E r \in DOMAIN all \ P : "target_line_no" \in DOMAIN all[r].line
    /\ Len(ret.context) >= 2

(***************************************************************************)
(* Outbound calls of concurrently served requests.  api/review.py builds a *)
(* GitHubService per request, and each GitHubService owns an executor of   *)
(* FetchWorkers threads that only its own fetch is submitted to.  Engine   *)
(* calls are submitted to the event loop's default executor, whose size is *)
(* min(32, cpu_count + 4).                                                 *)
(***************************************************************************)
DefaultWorkers == Min(32, CpuCount + 4)

Requests == 1..MaxRequests

InProgress(phases) == {r \in Requests : outbound[r] \in phases}

PoolFrame ==
    UNCHANGED <<store, clock, nextReview, pc, review_id, parsed_files, llm_responses,
                file_suggestions, all_suggestions, fetch_request, suggestions, response,
                nFeedback, ret>>

\* create_review with a GitHub source: a new GitHubService, so a new executor
\* holding this single fetch, which a free worker of it takes at once.
GetPrDiff(r) ==
    /\ outbound[r] = "idle"
    /\ 1 <= FetchWorkers
    /\ outbound' = [outbound EXCEPT ![r] = "fetch"]
    /\ PoolFrame

\* The fetch returns; the review goes on to its first engine call, or the
\* request ends (fetch failed, or the diff has no patched file).
GetPrDiffReturn(r) ==
    /\ outbound[r] = "fetch"
    /\ \E next \in {"llm_queued", "done"} : outbound' = [outbound EXCEPT ![r] = next]
    /\ PoolFrame

\* create_review with a pasted diff, or the next file of a review: _call_llm
\* submits the engine call to the default executor.
CallLlm(r) ==
    /\ outbound[r] = "idle"
    /\ outbound' = [outbound EXCEPT ![r] = "llm_queued"]
    /\ PoolFrame

\* A free thread of the default executor takes a queued engine call.
LlmInvoke(r) ==
    /\ outbound[r] = "llm_queued"
    /\ Cardinality(InProgress({"llm"})) < DefaultWorkers
    /\ outbound' = [outbound EXCEPT ![r] = "llm"]
    /\ PoolFrame

\* The engine call returns; the review has another file to send or is over.
CallLlmReturn(r) ==
    /\ outbound[r] = "llm"
    /\ \E next \in {"llm_queued", "done"} : outbound' = [outbound EXCEPT ![r] = next]
    /\ PoolFrame

NextPool ==
    \E r \in Requests :
        GetPrDiff(r) \/ GetPrDiffReturn(r) \/ CallLlm(r) \/ LlmInvoke(r) \/ CallLlmReturn(r)

SpecPool == Init /\ [][NextPool]_vars

(***************************************************************************)
(* C16: across all concurrently served requests, the number of outbound    *)
(* calls in progress (diff fetches and engine calls) never exceeds the     *)
(* worker pool's ceiling of 5, and a request arriving at the ceiling waits *)
(* instead of starting another outbound call.                              *)
(***************************************************************************)
C16_OutboundCallsAtMostCeiling ==
    Cardinality(InProgress({"fetch", "llm"})) <= FetchWorkers

(***************************************************************************)
(* store_feedback calls of concurrently served requests.  The coroutine    *)
(* chain submit_feedback -> process_feedback -> store_feedback awaits no   *)
(* executor or I/O future: the read of the record and the write of its     *)
(* metadata run without the event loop taking control, so concurrent calls *)
(* take effect one whole call after another, in any order.                 *)
(***************************************************************************)
Matches(rec, rid, sid) ==
    /\ rec.metadata.review_id = rid
    /\ rec.metadata.suggestion_id = sid

GivenReason(reason) == IF reason = NoneVal THEN "" ELSE reason

\* C17: under any interleaving of concurrently running store_feedback calls
\* no record is torn or lost: every call leaves every record other than the
\* one it names untouched, and leaves the one it names with exactly its own
\* action, reason and time, whatever calls came before it on the same or on
\* another suggestion.
C17_FeedbackNeitherTornNorLost ==
    [][(nFeedback' # nFeedback /\ ret'.status = 200)
        => /\ DOMAIN store' = DOMAIN store
           /\ \A i \in DOMAIN store :
                  IF Matches(store[i], ret'.review_id, ret'.suggestion_id)
                  THEN /\ store'[i].metadata.action = ret'.action
                       /\ store'[i].metadata.reason = GivenReason(ret'.reason)
                       /\ store'[i].metadata.feedback_timestamp = clock
                       /\ store'[i].document = store[i].document
                  ELSE store'[i] = store[i]]_vars

\* Two calls on different suggestions have both been served, and each record
\* carries a call's feedback.
C17_Witness ==
    /\ ret.op = "submit_feedback"
    /\ ret.found
    /\ nFeedback = 2
    /\ \E i, j \in DOMAIN store :
           /\ Matches(store[i], ret.review_id, ret.suggestion_id)
           /\ store[j].metadata.suggestion_id # ret.suggestion_id
           /\ store[i].metadata.action = ret.action
           /\ store[j].metadata.action \in TerminalActions
           /\ store[j].metadata.action # ret.action

\* C18: when the engine's answer for a file is JSON and constructing a
\* suggestion from any one of its elements fails, _parse_llm_response does
\* not raise and returns the empty list for that file: no suggestion built
\* from the earlier elements of the same answer is returned.
C18_ConstructionFailureGivesEmptyList ==
    /\ \A i \in DOMAIN file_suggestions :
           (/\ llm_responses[i].json
            /\ \E k \in DOMAIN llm_responses[i].items :
                   ~Constructible(llm_responses[i].items[k]))
               => file_suggestions[i] = <<>>
    /\ (pc = "done" /\ response.status = 500) => response.cause # "generate"

\* The fields of a record that feedback is not about.
FrameFields ==
    {"review_id", "suggestion_id", "file_path", "category", "confidence", "line_number",
     "timestamp"}

\* C19: store_feedback on an existing record with edited text provided sets
\* both the record's suggestion field and its edited_suggestion field to that
\* text; with no edited text provided it leaves the stored suggestion text as
\* it was; in both cases the record's review id, suggestion id, file path,
\* category, confidence, line number and creation timestamp, and every other
\* record in the store, are unchanged.
C19_EditedTextOverwritesSuggestion ==
    [][(nFeedback' # nFeedback /\ ret'.status = 200 /\ ret'.found)
        => \A i \in DOMAIN store :
               IF Matches(store[i], ret'.review_id, ret'.suggestion_id)
               THEN /\ IF ret'.edited_suggestion # NoneVal
                       THEN /\ store'[i].metadata.suggestion = ret'.edited_suggestion
                            /\ "edited_suggestion" \in DOMAIN store'[i].metadata
                            /\ store'[i].metadata.edited_suggestion = ret'.edited_suggestion
                       ELSE store'[i].metadata.suggestion = store[i].metadata.suggestion
                    /\ \A f \in FrameFields : store'[i].metadata[f] = store[i].metadata[f]
               ELSE store'[i] = store[i]]_vars

\* The number of stored records that carry review id rid.
RecordsOfReview(st, rid) ==
    Cardinality({i \in DOMAIN st : st[i].metadata.review_id = rid})

\* C21: get_review(R) returns a review exactly when the store holds at least
\* one record with review id R, and its suggestion_count is the number of
\* such records; consequently a review id handed out by a successful
\* POST /api/review is retrievable afterwards by GET /api/review/{review_id}
\* with suggestion_count equal to the number of suggestions that response
\* returned, including when that number is zero.
C21_HandedOutReviewIsRetrievable ==
    [][(ret' # ret /\ ret'.op = "get_review")
        => LET n == RecordsOfReview(store, ret'.review_id)
           IN  /\ (ret'.status = 200) <=> (n >= 1)
               /\ ret'.status = 200 => ret'.body.suggestion_count = n
               /\ (/\ pc = "done"
                   /\ response.status = 200
                   /\ response.review_id = ret'.review_id)
                      => /\ ret'.status = 200
                         /\ ret'.body.suggestion_count = Len(response.suggestions)]_vars

====
